---- MODULE Spec2Model ----
(***************************************************************************)
(* The analysis endpoint of product-hunt-trending                         *)
(* (src/src/app/api/analyze/route.ts, POST) as a state machine.            *)
(*                                                                         *)
(* Texts are sequences of characters; a character is a string of length 1, *)
(* except the backtick U+0060, which a TLA+ string literal cannot hold and *)
(* which is written BT.  JavaScript values are tagged records:             *)
(*   [t |-> "undefined"], [t |-> "null"], [t |-> "bool", b |-> _],         *)
(*   [t |-> "num", n |-> _], [t |-> "str", s |-> text],                    *)
(*   [t |-> "arr", a |-> sequence of values],                              *)
(*   [t |-> "obj", o |-> sequence of [k |-> text, v |-> value]]            *)
(* with the entries of an object in insertion order and its keys distinct. *)
(***************************************************************************)
EXTENDS Integers, Sequences, FiniteSets, Bags, TLC

\* ------------------------------------------------------------------ texts

BT == "BT"

Chars(str) == [i \in 1..Len(str) |-> SubSeq(str, i, i)]

Rep(c, n) == [i \in 1..n |-> c]

\* The white space String.prototype.trim removes and JSON.parse skips
\* (the part of it this model's texts use).
WhiteSpace == {" ", "\n", "\t", "\r"}

\* s has pat at position i
MatchAt(s, i, pat) ==
    /\ i >= 1
    /\ i + Len(pat) - 1 <= Len(s)
    /\ \A k \in 1..Len(pat) : s[i + k - 1] = pat[k]

\* String.prototype.includes
Includes(s, pat) == \E i \in 1..(Len(s) + 1) : MatchAt(s, i, pat)

MinOf(S) == CHOOSE x \in S : \A y \in S : x <= y

\* the first position from i on whose character is in C, Len(s) + 1 when
\* there is none; the text is searched sixteen characters at a time
RECURSIVE NextIn(_, _, _)
NextIn(s, i, C) ==
    IF i > Len(s) THEN Len(s) + 1
    ELSE LET hi == IF i + 15 < Len(s) THEN i + 15 ELSE Len(s)
             S == {j \in i..hi : s[j] \in C}
         IN  IF S = {} THEN NextIn(s, hi + 1, C) ELSE MinOf(S)

RECURSIVE TrimStart(_)
TrimStart(s) ==
    IF s # <<>> /\ Head(s) \in WhiteSpace THEN TrimStart(Tail(s)) ELSE s

RECURSIVE TrimEnd(_)
TrimEnd(s) ==
    IF s # <<>> /\ s[Len(s)] \in WhiteSpace
    THEN TrimEnd(SubSeq(s, 1, Len(s) - 1))
    ELSE s

\* String.prototype.trim
Trim(s) == TrimEnd(TrimStart(s))

Fence == <<BT, BT, BT>>

FenceJson == Fence \o Chars("json")

NewlineFence == <<"\n">> \o Fence

\* The length of the match of /```json\n?|\n?```/ at position i of s, 0 when
\* there is none: the first alternative is tried first, and \n? is greedy
\* with backtracking.
FenceMatchLen(s, i) ==
    IF MatchAt(s, i, FenceJson)
    THEN IF MatchAt(s, i + Len(FenceJson), <<"\n">>)
         THEN Len(FenceJson) + 1
         ELSE Len(FenceJson)
    ELSE IF MatchAt(s, i, NewlineFence)
         THEN Len(Fence) + 1
         ELSE IF MatchAt(s, i, Fence) THEN Len(Fence) ELSE 0

\* responseText.replace(/```json\n?|\n?```/g, ''): every match, left to
\* right, without rescanning what has been joined.
RECURSIVE StripFrom(_, _)
StripFrom(s, i) ==
    LET S == {j \in i..Len(s) : FenceMatchLen(s, j) > 0}
    IN  IF S = {} THEN SubSeq(s, i, Len(s))
        ELSE LET j == MinOf(S)
             IN  SubSeq(s, i, j - 1) \o StripFrom(s, j + FenceMatchLen(s, j))

StripFences(s) == StripFrom(s, 1)

\* cleanedText of route.ts:87
CleanText(s) == Trim(StripFences(s))

\* ----------------------------------------------------------------- values

Undefined == [t |-> "undefined"]

Null == [t |-> "null"]

Bool(b) == [t |-> "bool", b |-> b]

Num(n) == [t |-> "num", n |-> n]

Str(s) == [t |-> "str", s |-> s]

Arr(a) == [t |-> "arr", a |-> a]

Obj(o) == [t |-> "obj", o |-> o]

\* typeof v === 'string'
IsString(v) == v.t = "str"

\* Array.isArray(v)
IsArray(v) == v.t = "arr"

\* ToBoolean: what !v negates
Truthy(v) ==
    CASE v.t = "undefined" -> FALSE
      [] v.t = "null" -> FALSE
      [] v.t = "bool" -> v.b
      [] v.t = "num" -> v.n # 0
      [] v.t = "str" -> v.s # <<>>
      [] OTHER -> TRUE

\* v.k throws a TypeError
PropThrows(v) == v.t \in {"undefined", "null"}

\* v.k for a value on which it does not throw; k is never the name of a
\* property that strings, numbers, booleans or arrays inherit
GetProp(v, k) ==
    IF v.t = "obj" /\ \E i \in 1..Len(v.o) : v.o[i].k = k
    THEN v.o[CHOOSE i \in 1..Len(v.o) : v.o[i].k = k].v
    ELSE Undefined

\* o[k] = v while an object literal is decoded: a repeated key keeps its
\* place and takes the later value
SetProp(o, k, v) ==
    IF \E i \in 1..Len(o) : o[i].k = k
    THEN [i \in 1..Len(o) |-> IF o[i].k = k THEN [k |-> k, v |-> v] ELSE o[i]]
    ELSE Append(o, [k |-> k, v |-> v])

\* ------------------------------------------------------------- JSON.parse
\* The grammar of JSON without fractions, exponents and the escapes \b, \f
\* and \u, none of which this model's texts contain.

Failed == [ok |-> FALSE]

Parsed(v, p) == [ok |-> TRUE, v |-> v, p |-> p]

Digits == <<"0", "1", "2", "3", "4", "5", "6", "7", "8", "9">>

IsDigit(c) == \E d \in 1..10 : Digits[d] = c

DigitVal(c) == (CHOOSE d \in 1..10 : Digits[d] = c) - 1

ControlChars == {"\n", "\t", "\r"}

EscapeLetters == {"\"", "\\", "/", "n", "t", "r"}

Unescape(c) ==
    CASE c = "n" -> "\n"
      [] c = "t" -> "\t"
      [] c = "r" -> "\r"
      [] OTHER -> c

\* the first position from i on that is not white space
RECURSIVE SkipWs(_, _)
SkipWs(s, i) ==
    IF i <= Len(s) /\ s[i] \in WhiteSpace THEN SkipWs(s, i + 1) ELSE i

\* the characters that end a run of plain characters of a string literal
PlainRunEnds == {"\"", "\\"} \cup ControlChars

\* the characters of a string literal whose opening quote is before i
RECURSIVE ParseChars(_, _, _)
ParseChars(s, i0, acc0) ==
    LET i == NextIn(s, i0, PlainRunEnds)
        acc == acc0 \o SubSeq(s, i0, i - 1)
    IN  IF i > Len(s) THEN Failed
        ELSE IF s[i] = "\"" THEN Parsed(acc, i + 1)
        ELSE IF s[i] = "\\"
             THEN IF i + 1 <= Len(s) /\ s[i + 1] \in EscapeLetters
                  THEN ParseChars(s, i + 2, Append(acc, Unescape(s[i + 1])))
                  ELSE Failed
        ELSE Failed

RECURSIVE ParseDigits(_, _, _)
ParseDigits(s, i, acc) ==
    IF i <= Len(s) /\ IsDigit(s[i])
    THEN ParseDigits(s, i + 1, acc * 10 + DigitVal(s[i]))
    ELSE Parsed(acc, i)

ParseNumber(s, i) ==
    LET neg == s[i] = "-"
        j == IF neg THEN i + 1 ELSE i
    IN  IF j > Len(s) \/ ~IsDigit(s[j]) THEN Failed
        ELSE IF s[j] = "0" THEN Parsed(Num(0), j + 1)
        ELSE LET r == ParseDigits(s, j, 0)
             IN  Parsed(Num(IF neg THEN 0 - r.v ELSE r.v), r.p)

RECURSIVE ParseValue(_, _)
RECURSIVE ParseElements(_, _, _)
RECURSIVE ParseMembers(_, _, _)

ParseValue(s, i0) ==
    LET i == SkipWs(s, i0)
    IN  IF i > Len(s) THEN Failed
        ELSE IF s[i] = "{"
             THEN LET j == SkipWs(s, i + 1)
                  IN  IF j <= Len(s) /\ s[j] = "}"
                      THEN Parsed(Obj(<<>>), j + 1)
                      ELSE ParseMembers(s, j, <<>>)
        ELSE IF s[i] = "["
             THEN LET j == SkipWs(s, i + 1)
                  IN  IF j <= Len(s) /\ s[j] = "]"
                      THEN Parsed(Arr(<<>>), j + 1)
                      ELSE ParseElements(s, j, <<>>)
        ELSE IF s[i] = "\""
             THEN LET r == ParseChars(s, i + 1, <<>>)
                  IN  IF r.ok THEN Parsed(Str(r.v), r.p) ELSE Failed
        ELSE IF MatchAt(s, i, Chars("null")) THEN Parsed(Null, i + 4)
        ELSE IF MatchAt(s, i, Chars("true")) THEN Parsed(Bool(TRUE), i + 4)
        ELSE IF MatchAt(s, i, Chars("false")) THEN Parsed(Bool(FALSE), i + 5)
        ELSE IF s[i] = "-" \/ IsDigit(s[i]) THEN ParseNumber(s, i)
        ELSE Failed

\* the elements of an array from the element at i on
ParseElements(s, i, acc) ==
    LET r == ParseValue(s, i)
    IN  IF ~r.ok THEN Failed
        ELSE LET j == SkipWs(s, r.p)
             IN  IF j > Len(s) THEN Failed
                 ELSE IF s[j] = "," THEN ParseElements(s, j + 1, Append(acc, r.v))
                 ELSE IF s[j] = "]" THEN Parsed(Arr(Append(acc, r.v)), j + 1)
                 ELSE Failed

\* the members of an object from the member at i0 on
ParseMembers(s, i0, acc) ==
    LET i == SkipWs(s, i0)
    IN  IF i > Len(s) \/ s[i] # "\"" THEN Failed
        ELSE LET k == ParseChars(s, i + 1, <<>>)
             IN  IF ~k.ok THEN Failed
                 ELSE LET c == SkipWs(s, k.p)
                      IN  IF c > Len(s) \/ s[c] # ":" THEN Failed
                          ELSE LET r == ParseValue(s, c + 1)
                               IN  IF ~r.ok THEN Failed
                                   ELSE LET j == SkipWs(s, r.p)
                                            o == SetProp(acc, k.v, r.v)
                                        IN  IF j > Len(s) THEN Failed
                                            ELSE IF s[j] = "," THEN ParseMembers(s, j + 1, o)
                                            ELSE IF s[j] = "}" THEN Parsed(Obj(o), j + 1)
                                            ELSE Failed

\* JSON.parse(s): [ok |-> TRUE, v |-> value], or [ok |-> FALSE] where it
\* throws a SyntaxError
JsonParse(s) ==
    LET r == ParseValue(s, 1)
    IN  IF r.ok /\ SkipWs(s, r.p) > Len(s)
        THEN [ok |-> TRUE, v |-> r.v]
        ELSE [ok |-> FALSE]

\* --------------------------------------------------------- JSON.stringify

RECURSIVE NatText(_)
NatText(n) ==
    IF n < 10 THEN <<Digits[n + 1]>>
    ELSE NatText(n \div 10) \o <<Digits[(n % 10) + 1]>>

NumText(n) == IF n < 0 THEN <<"-">> \o NatText(0 - n) ELSE NatText(n)

EscapeChar(c) ==
    CASE c = "\"" -> <<"\\", "\"">>
      [] c = "\\" -> <<"\\", "\\">>
      [] c = "\n" -> <<"\\", "n">>
      [] c = "\t" -> <<"\\", "t">>
      [] c = "\r" -> <<"\\", "r">>
      [] OTHER -> <<c>>

Escaped == {"\"", "\\", "\n", "\t", "\r"}

RECURSIVE EscapeFrom(_, _)
EscapeFrom(s, i0) ==
    LET i == NextIn(s, i0, Escaped)
    IN  IF i > Len(s) THEN SubSeq(s, i0, Len(s))
        ELSE SubSeq(s, i0, i - 1) \o EscapeChar(s[i]) \o EscapeFrom(s, i + 1)

\* the string literal of the text s
Quote(s) == <<"\"">> \o EscapeFrom(s, 1) \o <<"\"">>

RECURSIVE JsonStringify(_)
RECURSIVE StringifyElements(_, _)
RECURSIVE StringifyMembers(_, _)

\* JSON.stringify(v) for a value without undefined in it
JsonStringify(v) ==
    CASE v.t = "null" -> Chars("null")
      [] v.t = "bool" -> IF v.b THEN Chars("true") ELSE Chars("false")
      [] v.t = "num" -> NumText(v.n)
      [] v.t = "str" -> Quote(v.s)
      [] v.t = "arr" -> <<"[">> \o StringifyElements(v.a, 1) \o <<"]">>
      [] v.t = "obj" -> <<"{">> \o StringifyMembers(v.o, 1) \o <<"}">>

StringifyElements(a, i) ==
    IF i > Len(a) THEN <<>>
    ELSE (IF i > 1 THEN <<",">> ELSE <<>>)
         \o JsonStringify(a[i]) \o StringifyElements(a, i + 1)

StringifyMembers(o, i) ==
    IF i > Len(o) THEN <<>>
    ELSE (IF i > 1 THEN <<",">> ELSE <<>>)
         \o Quote(o[i].k) \o <<":">> \o JsonStringify(o[i].v)
         \o StringifyMembers(o, i + 1)

\* ---------------------------------------------------------------- program

\* route.ts:45, the least trimmed length of an accepted input
MinInputLength == 50

\* the 50 of part_000:204
PageMinLength == 50

\* the longest run of white space put before and after an input
MaxPad == 1

\* the most calls of POST that wait at an await while another one runs
MaxParked == 2

\* the template literal of route.ts:59-75 before and after ${input}
PromptHead ==
    Chars("Analyze this Product Hunt product or description and provide a structured trend analysis:\n")
    \o Chars("\n")

PromptTail ==
    Chars("\n")
    \o Chars("\n")
    \o Chars("Please respond with a JSON object (no markdown formatting) with these exact fields:\n")
    \o Chars("{\n")
    \o Chars("  \"productName\": \"Extract product name or 'Unknown Product' if not found\",\n")
    \o Chars("  \"oneLineSummary\": \"One sentence summary of what this product does\",\n")
    \o Chars("  \"marketPositioning\": \"2-3 sentences on how this product positions itself in the market\",\n")
    \o Chars("  \"targetAudience\": \"Who is this product for? Be specific about demographics, use cases, or industries\",\n")
    \o Chars("  \"keyDifferentiators\": [\"array\", \"of\", \"3-5 unique features or competitive advantages\"],\n")
    \o Chars("  \"trendAnalysis\": \"How this aligns with current market trends, emerging opportunities, or timing factors\",\n")
    \o Chars("  \"growthPotential\": \"Assessment of market opportunity, scalability, and adoption potential with reasoning\",\n")
    \o Chars("  \"recommendations\": [\"2-4 actionable\", \"suggestions for improvement\", \"or go-to-market strategies\"]\n")
    \o Chars("}\n")
    \o Chars("\n")
    \o Chars("Focus on actionable insights, market fit, and strategic value. Be specific and evidence-based when possible.")

BuildPrompt(text) == PromptHead \o text \o PromptTail

\* NextResponse.json({ error: msg }, { status })
ErrorResponse(msg, status) ==
    [status |-> status,
     body |-> JsonStringify(Obj(<<[k |-> Chars("error"), v |-> Str(Chars(msg))]>>))]

\* JsonResponse returning the three checked fields alone
JsonResponseChecked(v) ==
    [status |-> 200,
     body |-> JsonStringify(Obj(
        <<[k |-> Chars("productName"), v |-> GetProp(v, Chars("productName"))],
          [k |-> Chars("oneLineSummary"), v |-> GetProp(v, Chars("oneLineSummary"))],
          [k |-> Chars("keyDifferentiators"), v |-> GetProp(v, Chars("keyDifferentiators"))]>>))]

\* NextResponse.json(analysis)
JsonResponse(v) == [status |-> 200, body |-> JsonStringify(v)]

MissingKeyResponse ==
    ErrorResponse("Server configuration error: ANTHROPIC_API_KEY not set", 500)

InvalidTypeResponse ==
    ErrorResponse("Input is required and must be a string", 400)

TooShortResponse ==
    ErrorResponse("Input must be at least 50 characters long. Please provide more details about the product.", 400)

ParseFailedResponse ==
    ErrorResponse("Failed to process AI response. Please try again.", 500)

InvalidStructureResponse ==
    ErrorResponse("AI response validation failed. Please try again.", 500)

RateLimitResponse ==
    ErrorResponse("Rate limit exceeded. Please wait a moment and try again.", 429)

AuthResponse ==
    ErrorResponse("Authentication error. Please check API configuration.", 500)

UnexpectedResponse ==
    ErrorResponse("An unexpected error occurred. Please try again.", 500)

\* what is thrown: instanceof Error or not, its message, and the statement
\* that threw it
Thrown(isError, message, at) ==
    [isError |-> isError, message |-> message, at |-> at]

\* CatchResponse without the branch of route.ts:119-124
CatchResponseNoAuth(err) ==
    IF err.isError /\ Includes(err.message, Chars("rate"))
    THEN RateLimitResponse
    ELSE UnexpectedResponse

\* CatchResponse without the instanceof test of route.ts:110
CatchResponseAnyThrown(err) ==
    IF Includes(err.message, Chars("rate"))
    THEN RateLimitResponse
    ELSE IF Includes(err.message, Chars("API key"))
         THEN AuthResponse
         ELSE UnexpectedResponse

\* CatchResponse answering route.ts:127-130 with the message of the error
CatchResponseLeaky(err) ==
    IF err.isError /\ Includes(err.message, Chars("rate"))
    THEN RateLimitResponse
    ELSE IF err.isError /\ Includes(err.message, Chars("API key"))
         THEN AuthResponse
         ELSE [status |-> 500,
               body |-> JsonStringify(Obj(<<[k |-> Chars("error"), v |-> Str(err.message)]>>))]

\* the catch block of route.ts:107-130
CatchResponse(err) ==
    IF err.isError /\ Includes(err.message, Chars("rate"))
    THEN RateLimitResponse
    ELSE IF err.isError /\ Includes(err.message, Chars("API key"))
         THEN AuthResponse
         ELSE UnexpectedResponse

\* the line of the return statement the catch block of route.ts:107-130
\* leaves by
CatchLine(err) ==
    IF err.isError /\ Includes(err.message, Chars("rate"))
    THEN 113
    ELSE IF err.isError /\ Includes(err.message, Chars("API key"))
         THEN 120
         ELSE 127

\* the outcome of the specification's table that a response reports
Kind(r) ==
    CASE r = MissingKeyResponse -> "ConfigurationError"
      [] r = AuthResponse -> "ConfigurationError"
      [] r = InvalidTypeResponse -> "ValidationError"
      [] r = TooShortResponse -> "ValidationError"
      [] r = RateLimitResponse -> "RateLimited"
      [] r = UnexpectedResponse -> "UpstreamError"
      [] r = ParseFailedResponse -> "MalformedResponse"
      [] r = InvalidStructureResponse -> "ContractViolation"
      [] OTHER -> IF r.status = 200 THEN "Success" ELSE "None"

\* ------------------------------------------------------------ environment

\* process.env.ANTHROPIC_API_KEY: unset, set to the empty string, or set
EnvKeys == {Undefined, Str(<<>>), Str(Chars("sk-ant"))}

\* inputs around the length limit, with spaces before and line breaks after
InputTexts ==
    {Rep(" ", l) \o Rep("a", n) \o Rep("\n", r) :
        l \in 0..MaxPad, r \in 0..MaxPad,
        n \in {0} \cup ((MinInputLength - 1)..(MinInputLength + 1))}

\* the text of a request body
BodyOfInput(text) == Chars("{\"input\":") \o Quote(text) \o Chars("}")

RequestBodies ==
    {BodyOfInput(s) : s \in InputTexts}
    \cup {Chars("{\"input\":null}"), Chars("{\"input\":5}"),
          Chars("{\"input\":0}"), Chars("{\"input\":true}"),
          Chars("{\"input\":{}}"), Chars("{\"input\":[\"a\"]}"),
          Chars("{}"), Chars("{\"text\":\"a\"}"),
          Chars("null"), Chars("5"), Chars("\"input\""), Chars("[]"),
          Chars("rate"), Chars("{\"input\":"), Chars("")}

\* The message of the SyntaxError of request.json() depends on the runtime
\* and on where decoding stops: V8 reports the end of the text, or names the
\* offending token (up to Node 18), or names it and quotes the text (from
\* Node 20 on).  Any of them may be the message of a text that is not empty.
SyntaxErrorMessages(text) ==
    IF text = <<>>
    THEN {Chars("Unexpected end of JSON input")}
    ELSE {Chars("Unexpected end of JSON input"),
          Chars("Unexpected token ") \o <<Head(text)>> \o Chars(" in JSON at position 0"),
          Chars("Unexpected token '") \o <<Head(text)>> \o Chars("', \"") \o text
              \o Chars("\" is not valid JSON")}

FullJson ==
    Chars("{\"productName\":\"Acme\",\"oneLineSummary\":\"Does things\",")
    \o Chars("\"marketPositioning\":\"Premium\",\"targetAudience\":\"Developers\",")
    \o Chars("\"keyDifferentiators\":[\"fast\",\"cheap\"],\"trendAnalysis\":\"Rising\",")
    \o Chars("\"growthPotential\":\"High\",\"recommendations\":[\"ship\",\"iterate\"]}")

MinimalJson ==
    Chars("{\"productName\":\"X\",\"oneLineSummary\":\"Y\",\"keyDifferentiators\":[]}")

NullsJson ==
    Chars("{\"productName\":\"X\",\"oneLineSummary\":\"Y\",\"marketPositioning\":null,")
    \o Chars("\"targetAudience\":null,\"keyDifferentiators\":[\"z\"],\"trendAnalysis\":null,")
    \o Chars("\"growthPotential\":null,\"recommendations\":null}")

PrettyJson ==
    Chars("{\n  \"productName\": \"X\",\n  \"oneLineSummary\": \"a \\\"b\\\"\\n\",\n")
    \o Chars("  \"keyDifferentiators\": [ \"p\" , \"q\" ]\n}\n")

TicksJson ==
    Chars("{\"productName\":\"a") \o Fence
    \o Chars("b\",\"oneLineSummary\":\"use ") \o FenceJson
    \o Chars("\",\"keyDifferentiators\":[]}")

NumberNameJson ==
    Chars("{\"productName\":7,\"oneLineSummary\":\"Y\",\"keyDifferentiators\":[]}")

EmptyNameJson ==
    Chars("{\"productName\":\"\",\"oneLineSummary\":\"Y\",\"keyDifferentiators\":[]}")

NoSummaryJson ==
    Chars("{\"productName\":\"X\",\"keyDifferentiators\":[]}")

ListAsTextJson ==
    Chars("{\"productName\":\"X\",\"oneLineSummary\":\"Y\",\"keyDifferentiators\":\"fast, cheap\"}")

SpecialNameJson ==
    Chars("{\"productName\":\"A/B: Test  Kit\",\"oneLineSummary\":\"Y\",")
    \o Chars("\"keyDifferentiators\":[],\"recommendations\":[]}")

\* replies that are JSON
JsonTexts ==
    {FullJson, SpecialNameJson, MinimalJson, NullsJson, PrettyJson, TicksJson, NumberNameJson,
     EmptyNameJson, NoSummaryJson, ListAsTextJson,
     Chars("null"), Chars("5"), Chars("\"abc\""), Chars("[]"), Chars("true")}

\* replies that are not
OtherTexts ==
    {Chars("not json"), Chars("{\"productName\":\"X\""), <<>>}

OpenFences == {FenceJson \o <<"\n">>, FenceJson, Fence \o <<"\n">>, Fence}

CloseFences == {<<"\n">> \o Fence, Fence}

\* the text of the first content block: bare, or inside a fenced code block
ReplyTexts ==
    JsonTexts \cup OtherTexts
    \cup {o \o j \o c : o \in OpenFences, c \in CloseFences, j \in JsonTexts \cup OtherTexts}

TextBlock(text) == [type |-> "text", text |-> text]

\* what anthropic.messages.create resolves to: no content block, a first
\* block that is not text, or a first block of text
ModelMessages ==
    {[content |-> <<>>], [content |-> <<[type |-> "tool_use"]>>]}
    \cup {[content |-> <<TextBlock(r)>>] : r \in ReplyTexts}

\* what anthropic.messages.create rejects with
ModelErrors ==
    {Thrown(TRUE, Chars("429 rate_limit_error"), "model"),
     Thrown(TRUE, Chars("401 invalid API key"), "model"),
     Thrown(TRUE, Chars("Invalid API key: generate a new one"), "model"),
     Thrown(TRUE, Chars("Connection error."), "model"),
     Thrown(FALSE, Chars("rate"), "model")}

\* ------------------------------------------------------------------ state

VARIABLES
    env,        \* process.env.ANTHROPIC_API_KEY
    clientKey,  \* the apiKey the client of route.ts:4-7 was constructed with
    parked,     \* the calls of POST that wait at an await, as a bag
    pc,         \* the position of the request in POST
    reqBody,    \* the text of the request body
    input,      \* const { input } = body
    prompt,     \* the content of the message sent to the model
    calls,      \* the calls of anthropic.messages.create of this request
    message,    \* what the call resolved to
    analysis,   \* the decoded reply
    thrown,     \* what the catch block caught
    response,   \* what POST returned
    ret,        \* the line of route.ts of the return statement POST left by
    pageInput,  \* the state input of Home
    result,     \* the state result of Home
    loading,    \* the state loading of Home
    error,      \* the state error of Home
    disabled,   \* the attribute disabled of the submit button as last rendered
    fetching,   \* the body of the request of Home that is under way
    inFlight,   \* the calls of handleSubmit that wait for their fetch
    download    \* the attribute download of the anchor last clicked by an export

\* the state of the server and the state of the page
serverVars ==
    <<env, clientKey, parked, pc, reqBody, input, prompt, calls, message, analysis,
      thrown, response, ret>>

pageVars == <<pageInput, result, loading, error, disabled, fetching, inFlight, download>>

vars == <<serverVars, pageVars>>

None == [t |-> "none"]

\* disabled={loading || input.length < 50} of part_000:204
DisabledIgnoringLoading(isLoading, text) == Len(text) < PageMinLength

\* disabled={loading || input.length < 50} of part_000:204
Disabled(isLoading, text) == isLoading \/ Len(text) < PageMinLength

\* process.env.ANTHROPIC_API_KEY || '' of route.ts:6
ApiKeyOption(key) == IF Truthy(key) THEN key ELSE Str(<<>>)

Init ==
    /\ env \in EnvKeys
    /\ clientKey = ApiKeyOption(env)
    /\ parked = EmptyBag
    /\ pc = "idle"
    /\ reqBody = <<>>
    /\ input = Undefined
    /\ prompt = <<>>
    /\ calls = 0
    /\ message = None
    /\ analysis = Undefined
    /\ thrown = None
    /\ response = None
    /\ ret = 0
    /\ pageInput = <<>>
    /\ result = Null
    /\ loading = FALSE
    /\ error = Null
    /\ disabled = Disabled(FALSE, <<>>)
    /\ fetching = None
    /\ inFlight = 0
    /\ download = None

\* return resp, at the given line of route.ts
Return(resp, line) ==
    /\ pc' = "done"
    /\ response' = resp
    /\ ret' = line
    /\ thrown' = thrown

\* Throw with no try around the body of POST: the exception leaves POST and
\* POST returns nothing
ThrowEscapes(err) ==
    /\ pc' = "done"
    /\ thrown' = err
    /\ response' = None
    /\ ret' = 0

\* throw err, caught at route.ts:107
Throw(err) ==
    /\ pc' = "done"
    /\ thrown' = err
    /\ response' = CatchResponse(err)
    /\ ret' = CatchLine(err)

\* a request arrives, with one of the given bodies
ReceiveFrom(bodies) ==
    /\ pc = "idle"
    /\ reqBody' \in bodies
    /\ pc' = "Received"
    /\ input' = Undefined
    /\ prompt' = <<>>
    /\ calls' = 0
    /\ message' = None
    /\ analysis' = Undefined
    /\ thrown' = None
    /\ response' = None
    /\ ret' = 0
    /\ UNCHANGED <<pageVars, env, clientKey, parked>>

Receive == ReceiveFrom(RequestBodies)

\* CheckCredential comparing the key with undefined alone
CheckCredentialDefined ==
    /\ pc = "Received"
    /\ IF env = Undefined
       THEN Return(MissingKeyResponse, 28)
       ELSE /\ pc' = "ReadBody"
            /\ UNCHANGED <<thrown, response, ret>>
    /\ UNCHANGED <<pageVars, env, clientKey, parked, reqBody, input, prompt, calls, message, analysis>>

\* route.ts:27-32
CheckCredential ==
    /\ pc = "Received"
    /\ IF ~Truthy(env)
       THEN Return(MissingKeyResponse, 28)
       ELSE /\ pc' = "ReadBody"
            /\ UNCHANGED <<thrown, response, ret>>
    /\ UNCHANGED <<pageVars, env, clientKey, parked, reqBody, input, prompt, calls, message, analysis>>

\* route.ts:35-36
ReadBody ==
    /\ pc = "ReadBody"
    /\ LET body == JsonParse(reqBody)
       IN  IF ~body.ok
           THEN /\ \E m \in SyntaxErrorMessages(reqBody) :
                       Throw(Thrown(TRUE, m, "body"))
                /\ UNCHANGED input
           ELSE IF PropThrows(body.v)
                THEN /\ Throw(Thrown(TRUE,
                            Chars("Cannot destructure property 'input' of 'body' as it is null."),
                            "body"))
                     /\ UNCHANGED input
                ELSE /\ input' = GetProp(body.v, Chars("input"))
                     /\ pc' = "Validating"
                     /\ UNCHANGED <<thrown, response, ret>>
    /\ UNCHANGED <<pageVars, env, clientKey, parked, reqBody, prompt, calls, message, analysis>>

\* Validate measuring the input without trimming it
ValidateUntrimmed ==
    /\ pc = "Validating"
    /\ IF ~Truthy(input) \/ ~IsString(input)
       THEN Return(InvalidTypeResponse, 39)
       ELSE IF Len(input.s) < MinInputLength
            THEN Return(TooShortResponse, 46)
            ELSE /\ pc' = "PromptBuilt"
                 /\ UNCHANGED <<thrown, response, ret>>
    /\ UNCHANGED <<pageVars, env, clientKey, parked, reqBody, input, prompt, calls, message, analysis>>

\* Validate testing the length before the type
ValidateLengthFirst ==
    /\ pc = "Validating"
    /\ IF IsString(input) /\ Len(Trim(input.s)) < MinInputLength
       THEN Return(TooShortResponse, 46)
       ELSE IF ~Truthy(input) \/ ~IsString(input)
            THEN Return(InvalidTypeResponse, 39)
            ELSE /\ pc' = "PromptBuilt"
                 /\ UNCHANGED <<thrown, response, ret>>
    /\ UNCHANGED <<pageVars, env, clientKey, parked, reqBody, input, prompt, calls, message, analysis>>

\* route.ts:38-50
Validate ==
    /\ pc = "Validating"
    /\ IF ~Truthy(input) \/ ~IsString(input)
       THEN Return(InvalidTypeResponse, 39)
       ELSE IF Len(Trim(input.s)) < MinInputLength
            THEN Return(TooShortResponse, 46)
            ELSE /\ pc' = "PromptBuilt"
                 /\ UNCHANGED <<thrown, response, ret>>
    /\ UNCHANGED <<pageVars, env, clientKey, parked, reqBody, input, prompt, calls, message, analysis>>

\* CallModel putting the trimmed input into the prompt
CallModelTrimmed ==
    /\ pc = "PromptBuilt"
    /\ prompt' = BuildPrompt(Trim(input.s))
    /\ calls' = calls + 1
    /\ pc' = "Invoking"
    /\ UNCHANGED <<pageVars, env, clientKey, parked, reqBody, input, message, analysis, thrown, response, ret>>

\* route.ts:53-78, up to the await
CallModel ==
    /\ pc = "PromptBuilt"
    /\ prompt' = BuildPrompt(input.s)
    /\ calls' = calls + 1
    /\ pc' = "Invoking"
    /\ UNCHANGED <<pageVars, env, clientKey, parked, reqBody, input, message, analysis, thrown, response, ret>>

\* the call resolves: the service answers a client that holds a key
ModelReturns ==
    /\ pc = "Invoking"
    /\ Truthy(clientKey)
    /\ message' \in ModelMessages
    /\ pc' = "Parsing"
    /\ UNCHANGED <<pageVars, env, clientKey, parked, reqBody, input, prompt, calls, analysis, thrown, response, ret>>

\* ModelThrows sending the message again after a rate limit error
ModelThrowsRetry ==
    /\ pc = "Invoking"
    /\ \E err \in ModelErrors :
          IF err.isError /\ Includes(err.message, Chars("rate"))
          THEN /\ pc' = "PromptBuilt"
               /\ UNCHANGED <<thrown, response, ret>>
          ELSE Throw(err)
    /\ UNCHANGED <<pageVars, env, clientKey, parked, reqBody, input, prompt, calls, message, analysis>>

\* the call rejects
ModelThrows ==
    /\ pc = "Invoking"
    /\ \E err \in ModelErrors : Throw(err)
    /\ UNCHANGED <<pageVars, env, clientKey, parked, reqBody, input, prompt, calls, message, analysis>>

\* ResponseText with an empty object, not an empty text, for a block that
\* is not text
ResponseTextEmptyObject(msg) ==
    IF msg.content[1].type = "text" THEN msg.content[1].text ELSE Chars("{}")

\* responseText of route.ts:81, where message.content[0] exists
ResponseText(msg) ==
    IF msg.content[1].type = "text" THEN msg.content[1].text ELSE <<>>

\* StructureInvalid asking for recommendations to be a list as well
StructureInvalidStrict(v) ==
    \/ ~Truthy(GetProp(v, Chars("productName")))
    \/ ~Truthy(GetProp(v, Chars("oneLineSummary")))
    \/ ~IsArray(GetProp(v, Chars("keyDifferentiators")))
    \/ ~IsArray(GetProp(v, Chars("recommendations")))

\* route.ts:98
StructureInvalid(v) ==
    \/ ~Truthy(GetProp(v, Chars("productName")))
    \/ ~Truthy(GetProp(v, Chars("oneLineSummary")))
    \/ ~IsArray(GetProp(v, Chars("keyDifferentiators")))

\* ParseReply without the try of route.ts:85-95: the SyntaxError of
\* JSON.parse reaches the catch block of route.ts:107
ParseReplyUncaught ==
    /\ pc = "Parsing"
    /\ IF message.content = <<>>
       THEN /\ Throw(Thrown(TRUE,
                   Chars("Cannot read properties of undefined (reading 'type')"),
                   "extract"))
            /\ UNCHANGED analysis
       ELSE LET decoded == JsonParse(CleanText(ResponseText(message)))
            IN  IF ~decoded.ok
                THEN /\ Throw(Thrown(TRUE, Chars("Unexpected end of JSON input"), "parse"))
                     /\ UNCHANGED analysis
                ELSE /\ analysis' = decoded.v
                     /\ IF PropThrows(decoded.v)
                        THEN Throw(Thrown(TRUE,
                                 Chars("Cannot read properties of null (reading 'productName')"),
                                 "contract"))
                        ELSE IF StructureInvalid(decoded.v)
                             THEN Return(InvalidStructureResponse, 100)
                             ELSE Return(JsonResponse(decoded.v), 106)
    /\ UNCHANGED <<pageVars, env, clientKey, parked, reqBody, input, prompt, calls, message>>

\* ParseReply answering a failed check of route.ts:98 with the decoded value
\* next to the message
ParseReplyPartial ==
    /\ pc = "Parsing"
    /\ IF message.content = <<>>
       THEN /\ Throw(Thrown(TRUE,
                   Chars("Cannot read properties of undefined (reading 'type')"),
                   "extract"))
            /\ UNCHANGED analysis
       ELSE LET decoded == JsonParse(CleanText(ResponseText(message)))
            IN  IF ~decoded.ok
                THEN /\ Return(ParseFailedResponse, 91)
                     /\ UNCHANGED analysis
                ELSE /\ analysis' = decoded.v
                     /\ IF PropThrows(decoded.v)
                        THEN Throw(Thrown(TRUE,
                                 Chars("Cannot read properties of null (reading 'productName')"),
                                 "contract"))
                        ELSE IF StructureInvalid(decoded.v)
                             THEN Return([status |-> 500,
                                          body |-> JsonStringify(Obj(
                                              <<[k |-> Chars("error"),
                                                 v |-> Str(Chars("AI response validation failed. Please try again."))],
                                                [k |-> Chars("received"), v |-> decoded.v]>>))], 100)
                             ELSE Return(JsonResponse(decoded.v), 106)
    /\ UNCHANGED <<pageVars, env, clientKey, parked, reqBody, input, prompt, calls, message>>

\* ParseReply asking the model again when the reply does not decode
ParseReplyAsksAgain ==
    /\ pc = "Parsing"
    /\ IF message.content = <<>>
       THEN /\ Throw(Thrown(TRUE,
                   Chars("Cannot read properties of undefined (reading 'type')"),
                   "extract"))
            /\ UNCHANGED analysis
       ELSE LET decoded == JsonParse(CleanText(ResponseText(message)))
            IN  IF ~decoded.ok
                THEN /\ pc' = "PromptBuilt"
                     /\ UNCHANGED <<analysis, thrown, response, ret>>
                ELSE /\ analysis' = decoded.v
                     /\ IF PropThrows(decoded.v)
                        THEN Throw(Thrown(TRUE,
                                 Chars("Cannot read properties of null (reading 'productName')"),
                                 "contract"))
                        ELSE IF StructureInvalid(decoded.v)
                             THEN Return(InvalidStructureResponse, 100)
                             ELSE Return(JsonResponse(decoded.v), 106)
    /\ UNCHANGED <<pageVars, env, clientKey, parked, reqBody, input, prompt, calls, message>>

\* ParseReply waiting for another reply when the reply does not decode
ParseReplyWaitsAgain ==
    /\ pc = "Parsing"
    /\ IF message.content = <<>>
       THEN /\ Throw(Thrown(TRUE,
                   Chars("Cannot read properties of undefined (reading 'type')"),
                   "extract"))
            /\ UNCHANGED analysis
       ELSE LET decoded == JsonParse(CleanText(ResponseText(message)))
            IN  IF ~decoded.ok
                THEN /\ pc' = "Invoking"
                     /\ UNCHANGED <<analysis, thrown, response, ret>>
                ELSE /\ analysis' = decoded.v
                     /\ IF PropThrows(decoded.v)
                        THEN Throw(Thrown(TRUE,
                                 Chars("Cannot read properties of null (reading 'productName')"),
                                 "contract"))
                        ELSE IF StructureInvalid(decoded.v)
                             THEN Return(InvalidStructureResponse, 100)
                             ELSE Return(JsonResponse(decoded.v), 106)
    /\ UNCHANGED <<pageVars, env, clientKey, parked, reqBody, input, prompt, calls, message>>

\* route.ts:81-106
ParseReply ==
    /\ pc = "Parsing"
    /\ IF message.content = <<>>
       THEN /\ Throw(Thrown(TRUE,
                   Chars("Cannot read properties of undefined (reading 'type')"),
                   "extract"))
            /\ UNCHANGED analysis
       ELSE LET decoded == JsonParse(CleanText(ResponseText(message)))
            IN  IF ~decoded.ok
                THEN /\ Return(ParseFailedResponse, 91)
                     /\ UNCHANGED analysis
                ELSE /\ analysis' = decoded.v
                     /\ IF PropThrows(decoded.v)
                        THEN Throw(Thrown(TRUE,
                                 Chars("Cannot read properties of null (reading 'productName')"),
                                 "contract"))
                        ELSE IF StructureInvalid(decoded.v)
                             THEN Return(InvalidStructureResponse, 100)
                             ELSE Return(JsonResponse(decoded.v), 106)
    /\ UNCHANGED <<pageVars, env, clientKey, parked, reqBody, input, prompt, calls, message>>

\* POST has returned: its locals are gone
Respond ==
    /\ pc = "done"
    /\ pc' = "idle"
    /\ reqBody' = <<>>
    /\ input' = Undefined
    /\ prompt' = <<>>
    /\ calls' = 0
    /\ message' = None
    /\ analysis' = Undefined
    /\ thrown' = None
    /\ response' = None
    /\ ret' = 0
    /\ UNCHANGED <<pageVars, env, clientKey, parked>>

Next ==
    \/ Receive
    \/ CheckCredential
    \/ ReadBody
    \/ Validate
    \/ CallModel
    \/ ModelReturns
    \/ ModelThrows
    \/ ParseReply
    \/ Respond

Spec == Init /\ [][Next]_vars

\* the server as the event loop runs it: a call of POST that can go on
\* without waiting goes on, and a call that has returned is answered; the
\* promise of anthropic.messages.create at route.ts:53 settles, which is
\* what the service is taken to do; the promise of request.json() at
\* route.ts:35 settles when the client has sent the body
\*
\* ParseReply is enabled exactly where pc = "Parsing" and every step of it
\* leaves that position, so WF_vars(ParseReply) is []<>(pc # "Parsing"); it
\* is written in that form, which spares evaluating ENABLED ParseReply
SpecLive ==
    /\ Init
    /\ [][Next]_vars
    /\ WF_vars(CheckCredential)
    /\ WF_vars(Validate)
    /\ WF_vars(CallModel)
    /\ WF_vars(ModelReturns \/ ModelThrows)
    /\ []<>(pc # "Parsing")
    /\ WF_vars(Respond)

\* the bodies of the requests that overlap
ConcurrentBodies ==
    {BodyOfInput(Rep("a", MinInputLength - 1)),
     BodyOfInput(Rep("a", MinInputLength)),
     Chars("null")}

ReceiveConcurrent == ReceiveFrom(ConcurrentBodies)

\* the locals of the running call of POST
Context ==
    [pc |-> pc, reqBody |-> reqBody, input |-> input, prompt |-> prompt,
     calls |-> calls, message |-> message, analysis |-> analysis,
     thrown |-> thrown, response |-> response, ret |-> ret]

\* the running call of POST waits at the await of route.ts:35 or of
\* route.ts:53 and the event loop is free for another call
Park ==
    /\ pc \in {"ReadBody", "Invoking"}
    /\ BagCardinality(parked) < MaxParked
    /\ parked' = parked (+) SetToBag({Context})
    /\ pc' = "idle"
    /\ reqBody' = <<>>
    /\ input' = Undefined
    /\ prompt' = <<>>
    /\ calls' = 0
    /\ message' = None
    /\ analysis' = Undefined
    /\ thrown' = None
    /\ response' = None
    /\ ret' = 0
    /\ UNCHANGED <<pageVars, env, clientKey>>

\* Resume continuing one call with the locals of another
ResumeCrossed ==
    /\ pc = "idle"
    /\ \E c \in BagToSet(parked), d \in BagToSet(parked) :
          /\ parked' = parked (-) SetToBag({c})
          /\ pc' = d.pc
          /\ reqBody' = c.reqBody
          /\ input' = c.input
          /\ prompt' = c.prompt
          /\ calls' = c.calls
          /\ message' = c.message
          /\ analysis' = c.analysis
          /\ thrown' = c.thrown
          /\ response' = c.response
          /\ ret' = c.ret
    /\ UNCHANGED <<pageVars, env, clientKey>>

\* the awaited promise of a waiting call settles and the call continues with
\* its own locals
Resume ==
    /\ pc = "idle"
    /\ \E c \in BagToSet(parked) :
          /\ parked' = parked (-) SetToBag({c})
          /\ pc' = c.pc
          /\ reqBody' = c.reqBody
          /\ input' = c.input
          /\ prompt' = c.prompt
          /\ calls' = c.calls
          /\ message' = c.message
          /\ analysis' = c.analysis
          /\ thrown' = c.thrown
          /\ response' = c.response
          /\ ret' = c.ret
    /\ UNCHANGED <<pageVars, env, clientKey>>

NextConcurrent ==
    \/ ReceiveConcurrent
    \/ CheckCredential
    \/ ReadBody
    \/ Validate
    \/ CallModel
    \/ ModelReturns
    \/ ModelThrows
    \/ ParseReply
    \/ Respond
    \/ Park
    \/ Resume

\* the server with calls of POST that overlap
SpecConcurrent == Init /\ [][NextConcurrent]_vars

\* process.env.ANTHROPIC_API_KEY is given another value after the module
\* of route.ts was loaded
SetEnv ==
    /\ env' \in EnvKeys \ {env}
    /\ UNCHANGED <<pageVars, clientKey, parked, pc, reqBody, input, prompt, calls, message, analysis,
                   thrown, response, ret>>

NextReconfigured == Next \/ SetEnv

\* the server while its environment is changed under it
SpecReconfigured == Init /\ [][NextReconfigured]_vars

\* ------------------------------------------------------------------- page

\* what the user types or pastes into the textarea
PageTexts == InputTexts

\* JSON.stringify({ input }) of part_000:31
PageBody(text) == JsonStringify(Obj(<<[k |-> Chars("input"), v |-> Str(text)]>>))

\* the values the server answers a success with
SuccessValues ==
    LET decoded == {JsonParse(CleanText(r)) : r \in ReplyTexts}
    IN  {d.v : d \in {e \in decoded : e.ok /\ ~PropThrows(e.v) /\ ~StructureInvalid(e.v)}}

\* what POST of route.ts answers a request with the given body, for every
\* credential and every outcome of the model call
ServerAnswers(body) ==
    LET b == JsonParse(body)
        sent == IF b.ok /\ ~PropThrows(b.v) THEN GetProp(b.v, Chars("input")) ELSE Undefined
    IN  {MissingKeyResponse} \cup
        IF ~b.ok \/ PropThrows(b.v)
        THEN {UnexpectedResponse, RateLimitResponse}
        ELSE IF ~Truthy(sent) \/ ~IsString(sent)
        THEN {InvalidTypeResponse}
        ELSE IF Len(Trim(sent.s)) < MinInputLength
        THEN {TooShortResponse}
        ELSE {RateLimitResponse, AuthResponse, UnexpectedResponse, ParseFailedResponse,
              InvalidStructureResponse} \cup {JsonResponse(v) : v \in SuccessValues}

\* what a gateway in front of the server answers when the server is down
GatewayResponse == [status |-> 502, body |-> Chars("<html>Bad Gateway</html>")]

\* the message of the TypeError fetch rejects with, by browser
FetchErrors ==
    {Chars("Failed to fetch"),
     Chars("NetworkError when attempting to fetch resource."),
     Chars("Load failed")}

\* response.ok
Ok(resp) == resp.status >= 200 /\ resp.status <= 299

\* the message of new Error(data.error || 'Analysis failed') of part_000:37
ThrownMessage(data) ==
    LET e == GetProp(data, Chars("error"))
    IN  IF ~Truthy(e)
        THEN Chars("Analysis failed")
        ELSE CASE e.t = "str" -> e.s
               [] e.t = "num" -> NumText(e.n)
               [] e.t = "bool" -> Chars("true")
               [] e.t = "obj" -> Chars("[object Object]")

\* onChange of part_000:187, and the render that follows
SetInput ==
    /\ pageInput' \in PageTexts \ {pageInput}
    /\ disabled' = Disabled(loading, pageInput')
    /\ UNCHANGED <<result, loading, error, fetching, inFlight, download, serverVars>>

\* HandleSubmit without the setError(null) of part_000:24
HandleSubmitKeepsError ==
    /\ ~disabled
    /\ result' = Null
    /\ loading' = TRUE
    /\ fetching' = PageBody(pageInput)
    /\ inFlight' = inFlight + 1
    /\ disabled' = Disabled(TRUE, pageInput)
    /\ UNCHANGED <<error, pageInput, download, serverVars>>

\* HandleSubmit with a button that stays enabled while loading is true
HandleSubmitWhileLoading ==
    /\ Len(pageInput) >= PageMinLength
    /\ error' = Null
    /\ result' = Null
    /\ loading' = TRUE
    /\ fetching' = PageBody(pageInput)
    /\ inFlight' = inFlight + 1
    /\ disabled' = Disabled(TRUE, pageInput)
    /\ UNCHANGED <<pageInput, download, serverVars>>

\* handleSubmit of part_000:22-32, up to the await of fetch, and the render
\* that follows; the form is submitted by the button
HandleSubmit ==
    /\ ~disabled
    /\ error' = Null
    /\ result' = Null
    /\ loading' = TRUE
    /\ fetching' = PageBody(pageInput)
    /\ inFlight' = inFlight + 1
    /\ disabled' = Disabled(TRUE, pageInput)
    /\ UNCHANGED <<pageInput, download, serverVars>>

\* handleSubmit of part_000:34-46 after fetch resolved, and the render that
\* follows
FetchResolves ==
    /\ fetching # None
    /\ loading' = FALSE
    /\ fetching' = None
    /\ inFlight' = inFlight - 1
    /\ disabled' = Disabled(FALSE, pageInput)
    /\ UNCHANGED <<pageInput, download, serverVars>>
    /\ \E resp \in ServerAnswers(fetching) \cup {GatewayResponse} :
          LET data == JsonParse(resp.body)
          IN  IF ~data.ok
              THEN /\ \E m \in SyntaxErrorMessages(resp.body) : error' = Str(m)
                   /\ UNCHANGED result
              ELSE IF ~Ok(resp)
              THEN /\ error' = Str(IF PropThrows(data.v)
                                   THEN Chars("Cannot read properties of null (reading 'error')")
                                   ELSE ThrownMessage(data.v))
                   /\ UNCHANGED result
              ELSE /\ result' = data.v
                   /\ UNCHANGED error

\* FetchRejects without the finally of part_000:43-45
FetchRejectsNoFinally ==
    /\ fetching # None
    /\ \E m \in FetchErrors : error' = Str(m)
    /\ fetching' = None
    /\ inFlight' = inFlight - 1
    /\ disabled' = Disabled(loading, pageInput)
    /\ UNCHANGED <<loading, pageInput, result, download, serverVars>>

\* handleSubmit of part_000:41-46 after fetch rejected, and the render
\* that follows
FetchRejects ==
    /\ fetching # None
    /\ \E m \in FetchErrors : error' = Str(m)
    /\ loading' = FALSE
    /\ fetching' = None
    /\ inFlight' = inFlight - 1
    /\ disabled' = Disabled(FALSE, pageInput)
    /\ UNCHANGED <<pageInput, result, download, serverVars>>

\* onClick of part_000:216, and the render that follows
Dismiss ==
    /\ error # Null
    /\ error' = Null
    /\ disabled' = Disabled(loading, pageInput)
    /\ UNCHANGED <<pageInput, result, loading, fetching, inFlight, download, serverVars>>

NextPage ==
    \/ SetInput
    \/ HandleSubmit
    \/ FetchResolves
    \/ FetchRejects
    \/ Dismiss

\* the page, with the server seen through its answers
SpecPage == Init /\ [][NextPage]_vars

\* the page with a fetch that settles: the promise of part_000:28 resolves
\* or rejects
SpecPageLive ==
    /\ Init
    /\ [][NextPage]_vars
    /\ WF_vars(FetchRejects \/ FetchResolves)

\* the block of part_000:235 with the export buttons is rendered: there is
\* a result, and the render could call map on its two lists
Rendered(res) ==
    /\ res # Null
    /\ IsArray(GetProp(res, Chars("keyDifferentiators")))
    /\ IsArray(GetProp(res, Chars("recommendations")))

\* String.prototype.replace(/\s+/g, '-'): every run of white space becomes
\* one hyphen, every other character stays
RECURSIVE ReplaceWhiteSpace(_)
ReplaceWhiteSpace(s) ==
    IF s = <<>> THEN <<>>
    ELSE IF Head(s) \in WhiteSpace
         THEN <<"-">> \o ReplaceWhiteSpace(TrimStart(Tail(s)))
         ELSE <<Head(s)>> \o ReplaceWhiteSpace(Tail(s))

\* the template of part_000:87, 123 and 159
FileName(productName, ext) ==
    ReplaceWhiteSpace(productName) \o Chars("-analysis.") \o ext

\* an export button is clicked: the anchor is given its file name and
\* clicked; a productName that is no text has no replace, the handler
\* throws and no anchor is clicked
Download(ext) ==
    /\ Rendered(result)
    /\ IsString(GetProp(result, Chars("productName")))
    /\ download' = FileName(GetProp(result, Chars("productName")).s, ext)
    /\ UNCHANGED <<pageInput, result, loading, error, disabled, fetching, inFlight, serverVars>>

\* downloadJSON of part_000:81-90
DownloadJSON == Download(Chars("json"))

\* downloadMarkdown of part_000:92-126
DownloadMarkdown == Download(Chars("md"))

\* downloadText of part_000:128-162
DownloadText == Download(Chars("txt"))

NextExport ==
    \/ SetInput
    \/ HandleSubmit
    \/ FetchResolves
    \/ FetchRejects
    \/ Dismiss
    \/ DownloadJSON
    \/ DownloadMarkdown
    \/ DownloadText

\* the page with its exports
SpecExport == Init /\ [][NextExport]_vars

\* ----------------------------------------------------------------- claims

\* the credential is configured
KeyPresent == env.t = "str" /\ env.s # <<>>

\* the input the request carries, Undefined when its body carries none
SentInput ==
    LET body == JsonParse(reqBody)
    IN  IF body.ok /\ body.v.t = "obj" THEN GetProp(body.v, Chars("input")) ELSE Undefined

\* the request carries a text whose trimmed length is below the limit
ShortInput ==
    /\ pc # "idle"
    /\ SentInput.t = "str"
    /\ Len(Trim(SentInput.s)) < MinInputLength

\* the request carries a text whose trimmed length reaches the limit
LongInput ==
    /\ pc # "idle"
    /\ SentInput.t = "str"
    /\ Len(Trim(SentInput.s)) >= MinInputLength

\* the model replied with a first block of text
TextReply ==
    /\ message # None
    /\ message.content # <<>>
    /\ message.content[1].type = "text"

\* what the text of the reply decodes to after the fences are stripped
DecodedReply == JsonParse(CleanText(message.content[1].text))

NonEmptyText(v) == v.t = "str" /\ v.s # <<>>

TextList(v) == v.t = "arr" /\ \A i \in 1..Len(v.a) : v.a[i].t = "str"

\* the model call rejected with an Error
ModelError ==
    /\ thrown # None
    /\ thrown.at = "model"
    /\ thrown.isError

\* C1, as stated: for every request whose input has trimmed length below 50,
\* the model is never called and the request ends in ValidationError.
C1_Original ==
    ShortInput =>
        /\ calls = 0
        /\ pc = "done" => Kind(response) = "ValidationError"

\* C1, amended: for every request that arrives while the credential is
\* present and whose input has trimmed length below 50, the model is never
\* called and the request ends in ValidationError.
C1_ShortInputRejected ==
    (ShortInput /\ KeyPresent) =>
        /\ calls = 0
        /\ pc = "done" => Kind(response) = "ValidationError"

\* a text of 49 characters inside white space, 50 or more in all, rejected
C1_Witness ==
    /\ pc = "done"
    /\ ShortInput
    /\ KeyPresent
    /\ Len(SentInput.s) >= MinInputLength
    /\ Len(Trim(SentInput.s)) = MinInputLength - 1
    /\ response = TooShortResponse
    /\ calls = 0

\* C2: with the credential present, every request whose body decodes and
\* carries no text as input (no input, null, a number, an object, or a body
\* that is not an object) ends in ValidationError without a model call.
C2_NonTextRejected ==
    (pc = "done" /\ KeyPresent /\ JsonParse(reqBody).ok /\ SentInput.t # "str") =>
        /\ Kind(response) = "ValidationError"
        /\ calls = 0

\* C3: while the credential is absent (unset or empty) the model is never
\* called and the request ends in ConfigurationError, whatever its input.
C3_MissingCredential ==
    (pc # "idle" /\ ~KeyPresent) =>
        /\ calls = 0
        /\ pc \in {"Received", "done"}
        /\ pc = "done" => Kind(response) = "ConfigurationError"

\* an empty credential and an input that validation would accept
C3_Witness ==
    /\ pc = "done"
    /\ env = Str(<<>>)
    /\ LongInput
    /\ response = MissingKeyResponse
    /\ calls = 0

\* C4: with the credential present and a text input of trimmed length 50 or
\* more, a reply that decodes to a value with non-empty productName,
\* non-empty oneLineSummary and a list keyDifferentiators is returned as a
\* success whose body decodes to that value, whatever the other five fields.
C4_ValidReplySucceeds ==
    (pc = "done" /\ KeyPresent /\ LongInput /\ TextReply) =>
        LET d == DecodedReply
        IN  (/\ d.ok
             /\ NonEmptyText(GetProp(d.v, Chars("productName")))
             /\ NonEmptyText(GetProp(d.v, Chars("oneLineSummary")))
             /\ GetProp(d.v, Chars("keyDifferentiators")).t = "arr") =>
                /\ response.status = 200
                /\ thrown = None
                /\ JsonParse(response.body) = [ok |-> TRUE, v |-> d.v]

\* an input of trimmed length 50 exactly and a reply whose other five
\* fields are null
C4_Witness ==
    /\ pc = "done"
    /\ LongInput
    /\ Len(Trim(SentInput.s)) = MinInputLength
    /\ Len(SentInput.s) > MinInputLength
    /\ TextReply
    /\ message.content[1].text = NullsJson
    /\ response.status = 200
    /\ GetProp(JsonParse(response.body).v, Chars("recommendations")) = Null

\* C5: a reply whose text, with the fences stripped and trimmed, does not
\* decode ends the request in MalformedResponse: after one model call, with
\* nothing decoded and nothing but the error message returned.
C5_UndecodableReply ==
    (pc = "done" /\ message # None /\ message.content # <<>>
        /\ ~JsonParse(CleanText(ResponseText(message))).ok) =>
        /\ response = ParseFailedResponse
        /\ Kind(response) = "MalformedResponse"
        /\ calls = 1
        /\ analysis = Undefined

\* the reply "not json"
C5_Witness ==
    /\ pc = "done"
    /\ TextReply
    /\ message.content[1].text = Chars("not json")
    /\ Kind(response) = "MalformedResponse"

\* C6: every decoded reply that fails one of the three checks, a decoded
\* value that is not an object included, ends in ContractViolation.
C6_FailedCheckIsViolation ==
    (pc = "done" /\ TextReply) =>
        LET d == DecodedReply
        IN  (/\ d.ok
             /\ \/ ~Truthy(GetProp(d.v, Chars("productName")))
                \/ ~Truthy(GetProp(d.v, Chars("oneLineSummary")))
                \/ GetProp(d.v, Chars("keyDifferentiators")).t # "arr") =>
                Kind(response) = "ContractViolation"

EightFields ==
    {Chars("productName"), Chars("oneLineSummary"), Chars("marketPositioning"),
     Chars("targetAudience"), Chars("keyDifferentiators"), Chars("trendAnalysis"),
     Chars("growthPotential"), Chars("recommendations")}

ListFields == {Chars("keyDifferentiators"), Chars("recommendations")}

\* d is a decoded object of the eight fields, all of them populated
FullyPopulated(d) ==
    /\ d.ok
    /\ d.v.t = "obj"
    /\ {d.v.o[i].k : i \in 1..Len(d.v.o)} = EightFields
    /\ \A k \in EightFields \ ListFields : NonEmptyText(GetProp(d.v, k))
    /\ \A k \in ListFields : TextList(GetProp(d.v, k))

\* C7: for a fully populated reply of the eight fields, the body of the
\* success decodes to an object of eight fields, each equal to the decoded
\* field of the reply, lists in the same order.
C7_FieldsUnchanged ==
    (pc = "done" /\ TextReply) =>
        LET d == DecodedReply
        IN  FullyPopulated(d) =>
                /\ response.status = 200
                /\ LET r == JsonParse(response.body)
                   IN  /\ r.ok
                       /\ r.v.t = "obj"
                       /\ Len(r.v.o) = Cardinality(EightFields)
                       /\ \A k \in EightFields : GetProp(r.v, k) = GetProp(d.v, k)

\* the fully populated reply inside a json fence, returned
C7_Witness ==
    /\ pc = "done"
    /\ TextReply
    /\ FullyPopulated(DecodedReply)
    /\ message.content[1].text = FenceJson \o <<"\n">> \o FullJson \o <<"\n">> \o Fence
    /\ response.status = 200
    /\ GetProp(JsonParse(response.body).v, Chars("recommendations"))
            = Arr(<<Str(Chars("ship")), Str(Chars("iterate"))>>)

\* C8: a reply made of an opening fence, a JSON text and a closing fence
\* decodes to what the JSON text alone decodes to.
C8_FenceRoundTrip ==
    \A o \in OpenFences, c \in CloseFences, j \in JsonTexts :
        (pc = "done" /\ TextReply /\ message.content[1].text = o \o j \o c) =>
            analysis = JsonParse(j).v

\* C9: a model call that rejects with an Error whose message contains
\* 'rate' ends in RateLimited, and RateLimited is returned for no failure
\* but one of the model call.
C9_RateLimitedOnlyByModel ==
    pc = "done" =>
        /\ (ModelError /\ Includes(thrown.message, Chars("rate"))) =>
                Kind(response) = "RateLimited"
        /\ Kind(response) = "RateLimited" => (thrown # None /\ thrown.at = "model")

\* C10, as stated: a model call that rejects with an Error whose message
\* contains 'API key' ends in ConfigurationError, also when the message
\* contains 'rate'.
C10_Original ==
    (pc = "done" /\ ModelError /\ Includes(thrown.message, Chars("API key"))) =>
        Kind(response) = "ConfigurationError"

\* C10, amended: a model call that rejects with an Error whose message
\* contains 'API key' ends in ConfigurationError when the message does not
\* contain 'rate', and in RateLimited when it does.
C10_AuthAfterRate ==
    (pc = "done" /\ ModelError /\ Includes(thrown.message, Chars("API key"))) =>
        IF Includes(thrown.message, Chars("rate"))
        THEN Kind(response) = "RateLimited"
        ELSE response = AuthResponse /\ Kind(response) = "ConfigurationError"

\* the model call rejected with "401 invalid API key"
C10_Witness ==
    /\ pc = "done"
    /\ ModelError
    /\ thrown.message = Chars("401 invalid API key")
    /\ response = AuthResponse

\* C11: a model call that rejects with a thrown value that is not an Error,
\* or with an Error whose message contains neither 'rate' nor 'API key',
\* ends in UpstreamError: status 500 with the generic message.
C11_OtherModelFailure ==
    (/\ pc = "done"
     /\ thrown # None
     /\ thrown.at = "model"
     /\ \/ ~thrown.isError
        \/ /\ ~Includes(thrown.message, Chars("rate"))
           /\ ~Includes(thrown.message, Chars("API key")))
        => /\ response = UnexpectedResponse
           /\ Kind(response) = "UpstreamError"

\* the model call rejected with a value that is not an Error and whose
\* message reads 'rate'
C11_Witness ==
    /\ pc = "done"
    /\ thrown # None
    /\ thrown.at = "model"
    /\ ~thrown.isError
    /\ Includes(thrown.message, Chars("rate"))
    /\ Kind(response) = "UpstreamError"

\* the response is a failure whose body holds one member, named error, with
\* a text for its value
ErrorOnly(r) ==
    LET b == JsonParse(r.body)
    IN  /\ r.status # 200
        /\ b.ok
        /\ b.v.t = "obj"
        /\ Len(b.v.o) = 1
        /\ b.v.o[1].k = Chars("error")
        /\ b.v.o[1].v.t = "str"

\* C12: every response is either a success whose body is the whole value
\* decoded from the reply, that value having passed the check of
\* route.ts:98, or a failure whose body is an error message and nothing
\* else: no failure carries a field of the reply.
C12_NoPartialResult ==
    pc = "done" =>
        IF response.status = 200
        THEN /\ TextReply
             /\ LET d == DecodedReply
                IN  /\ d.ok
                    /\ analysis = d.v
                    /\ response.body = JsonStringify(d.v)
                    /\ JsonParse(response.body) = d
                    /\ Truthy(GetProp(d.v, Chars("productName")))
                    /\ Truthy(GetProp(d.v, Chars("oneLineSummary")))
                    /\ IsArray(GetProp(d.v, Chars("keyDifferentiators")))
        ELSE ErrorOnly(response)

\* a reply that decoded to an object with fields failed the check of
\* route.ts:98 and the response carries the message alone
C12_Witness ==
    /\ pc = "done"
    /\ analysis.t = "obj"
    /\ Len(analysis.o) >= 3
    /\ response = InvalidStructureResponse
    /\ ErrorOnly(response)

\* the lines of route.ts whose return statement answers a failure
FailureLines == {28, 39, 46, 91, 100, 113, 120, 127}

\* the response each of them answers with
FailureAt(line) ==
    CASE line = 28 -> MissingKeyResponse
      [] line = 39 -> InvalidTypeResponse
      [] line = 46 -> TooShortResponse
      [] line = 91 -> ParseFailedResponse
      [] line = 100 -> InvalidStructureResponse
      [] line = 113 -> RateLimitResponse
      [] line = 120 -> AuthResponse
      [] line = 127 -> UnexpectedResponse

\* C13: a failing request answers with the status and message of the
\* return statement it left by and nothing else, so two failing requests
\* that leave by the same statement get the same response whatever the
\* request body, the reply of the model or the message of the exception
\* were; the message is one of eight constant texts.
C13_NoInternalDetail ==
    (pc = "done" /\ response.status # 200) =>
        /\ ret \in FailureLines
        /\ response = FailureAt(ret)
        /\ response \in {FailureAt(l) : l \in FailureLines}

\* the model call rejected with 'Connection error.' and the response is the
\* generic one
C13_Witness ==
    /\ pc = "done"
    /\ ret = 127
    /\ thrown # None
    /\ thrown.message = Chars("Connection error.")
    /\ response = UnexpectedResponse
    /\ ~Includes(response.body, thrown.message)

\* C14: a request calls the model at most once, the call is made after the
\* input passed validation and before anything failed, and a request that
\* has thrown or answered is over: it makes no call after that.
C14_AtMostOneCall ==
    /\ calls \in {0, 1}
    /\ calls = 1 => pc \in {"Invoking", "Parsing", "done"}
    /\ (thrown # None \/ response # None) => pc = "done"
    /\ pc \in {"idle", "Received", "ReadBody", "Validating", "PromptBuilt"} => calls = 0

\* the one call of a request was rejected with a rate limit error and the
\* request ended with that
C14_Witness ==
    /\ pc = "done"
    /\ calls = 1
    /\ ModelError
    /\ Kind(response) = "RateLimited"

\* C15: the value of every success has a non-empty text for productName, a
\* non-empty text for oneLineSummary and a list for keyDifferentiators.
C15_SuccessIsValid ==
    (pc = "done" /\ response.status = 200) =>
        /\ NonEmptyText(GetProp(analysis, Chars("productName")))
        /\ NonEmptyText(GetProp(analysis, Chars("oneLineSummary")))
        /\ IsArray(GetProp(analysis, Chars("keyDifferentiators")))

\* the six kinds of failure
FailureKinds ==
    {"ConfigurationError", "ValidationError", "RateLimited", "UpstreamError",
     "MalformedResponse", "ContractViolation"}

\* C16: whatever is thrown inside POST (by reading the body, by the model
\* call, by reading a reply with no content block, by the check of a
\* decoded null) is caught and answered, and every request that ends
\* answers with a success or with exactly one of the six kinds of failure.
C16_EveryFailureReported ==
    /\ thrown # None =>
            /\ pc = "done"
            /\ response # None
            /\ response.status # 200
            /\ Kind(response) \in FailureKinds
    /\ pc = "done" =>
            /\ response # None
            /\ Kind(response) \in FailureKinds \cup {"Success"}
            /\ response.status # 200 => Kind(response) \in FailureKinds

\* the reply had no content block: the TypeError of route.ts:81 was caught
\* and answered as UpstreamError
C16_Witness ==
    /\ pc = "done"
    /\ thrown # None
    /\ thrown.at = "extract"
    /\ Kind(response) = "UpstreamError"

\* the place of a position of POST in the order Received, Validating,
\* PromptBuilt, Invoking, Parsing; reading the body belongs to Validating
Rank(p) ==
    CASE p = "Received" -> 1
      [] p = "ReadBody" -> 2
      [] p = "Validating" -> 2
      [] p = "PromptBuilt" -> 3
      [] p = "Invoking" -> 4
      [] p = "Parsing" -> 5

Transient == {"Received", "ReadBody", "Validating", "PromptBuilt", "Invoking", "Parsing"}

\* one step of a request keeps to the order of the states
LifecycleStep ==
    /\ pc = "idle" => pc' \in {"idle", "Received"}
    /\ pc \in Transient =>
            \/ pc' = "done" /\ response' # None
            \/ /\ pc' \in Transient
               /\ Rank(pc') >= Rank(pc)
               /\ Rank(pc') <= Rank(pc) + 1
               /\ response' = None
    /\ (pc \in Transient /\ pc' = "done" /\ response'.status = 200) => pc = "Parsing"
    /\ (pc # "done" /\ calls' # calls) =>
            /\ pc = "PromptBuilt"
            /\ calls' = calls + 1
            /\ IsString(input)
            /\ Len(Trim(input.s)) >= MinInputLength
    /\ pc = "done" =>
            \/ UNCHANGED <<pc, response, ret, thrown, calls>>
            \/ pc' = "idle" /\ response' = None /\ calls' = 0

\* C20: a request goes through Received, Validating, PromptBuilt, Invoking
\* and Parsing in that order, one state at a time and never back, until it
\* ends with one response, a success or a failure; a success comes from
\* Parsing alone, the model is called from PromptBuilt alone, with an input
\* that passed validation, and a request that has ended takes no further
\* step and answers no second time.
C20_Lifecycle == [][LifecycleStep]_vars

\* a request went through every state and ended in a success
C20_Witness ==
    /\ pc = "done"
    /\ ret = 106
    /\ calls = 1
    /\ response.status = 200
    /\ thrown = None

\* C18: the credential is read when the client is constructed and never
\* again, so a request is refused for a missing credential exactly when
\* the credential was missing at construction, whatever the environment
\* holds when the request arrives.
C18_ReadOnce ==
    pc = "done" => (response = MissingKeyResponse <=> ~Truthy(clientKey))

\* the response a request gets when it is the only one: a function of the
\* credential, of its own body and of what the model call made for it
\* resolved to or rejected with
AnsweredAsAlone ==
    IF ~Truthy(env)
    THEN response = MissingKeyResponse
    ELSE LET body == JsonParse(reqBody)
         IN  IF ~body.ok \/ PropThrows(body.v)
             THEN thrown # None /\ thrown.at = "body" /\ response = CatchResponse(thrown)
             ELSE LET sent == GetProp(body.v, Chars("input"))
                  IN  IF ~Truthy(sent) \/ ~IsString(sent)
                      THEN response = InvalidTypeResponse
                      ELSE IF Len(Trim(sent.s)) < MinInputLength
                      THEN response = TooShortResponse
                      ELSE IF message = None
                      THEN thrown # None /\ thrown.at = "model"
                           /\ response = CatchResponse(thrown)
                      ELSE IF message.content = <<>>
                      THEN thrown # None /\ thrown.at = "extract"
                           /\ response = CatchResponse(thrown)
                      ELSE LET d == JsonParse(CleanText(ResponseText(message)))
                           IN  IF ~d.ok
                               THEN response = ParseFailedResponse
                               ELSE IF PropThrows(d.v)
                               THEN thrown # None /\ thrown.at = "contract"
                                    /\ response = CatchResponse(thrown)
                               ELSE IF StructureInvalid(d.v)
                               THEN response = InvalidStructureResponse
                               ELSE response = JsonResponse(d.v)

\* C17: with calls of POST that overlap in every way the awaits allow, a
\* request that ends is answered as it would be alone with the same
\* credential, body and model reply; the calls that wait keep their own
\* locals and the credential is not written by any of them.
C17_NoInterference ==
    /\ pc = "done" => AnsweredAsAlone
    /\ clientKey = ApiKeyOption(env)
    /\ \A c \in BagToSet(parked) :
          /\ c.pc \in {"ReadBody", "Invoking"}
          /\ c.response = None
          /\ c.pc = "Invoking" =>
                /\ c.calls = 1
                /\ IsString(c.input)
                /\ Len(Trim(c.input.s)) >= MinInputLength
                /\ c.prompt = BuildPrompt(c.input.s)

\* a request ended in a success while two others wait, one for its body
\* and one for the model
C17_Witness ==
    /\ pc = "done"
    /\ response.status = 200
    /\ AnsweredAsAlone
    /\ BagCardinality(parked) = 2
    /\ \E c \in BagToSet(parked) : c.pc = "Invoking"
    /\ \E c \in BagToSet(parked) : c.pc = "ReadBody"

\* C19: the submit button is disabled in every state of the page where
\* loading is true or the input is shorter than 50 characters, and enabled
\* in every other state.
C19_ButtonDisabled ==
    disabled <=> (loading \/ Len(pageInput) < 50)

\* the button is disabled while a request is under way although the input
\* is long enough
C19_Witness ==
    /\ loading
    /\ fetching # None
    /\ Len(pageInput) >= 50
    /\ disabled

\* the button is enabled: nothing is under way and the input has 50
\* characters, one of them a space
C19_WitnessEnabled ==
    /\ ~loading
    /\ Len(pageInput) = 50
    /\ Len(Trim(pageInput)) < 50
    /\ ~disabled

\* C21, as stated: with a model call that settles, every request that
\* arrived ends, the model call being the only place where a request can
\* wait for ever.
C21_Original == (pc = "Received") ~> (pc = "done")

\* C21, amended: with a model call that settles, every request whose body
\* has been read ends, and every request that arrived ends or waits for its
\* body at route.ts:35; the read of the body and the model call are the two
\* places where a request can wait for ever.
C21_EndsOnceRead ==
    /\ (pc \in {"Validating", "PromptBuilt", "Invoking", "Parsing"}) ~> (pc = "done")
    /\ (pc = "Received") ~> (pc \in {"ReadBody", "done"})

\* a request that waited for its body and for the model has ended
C21_Witness ==
    /\ pc = "done"
    /\ calls = 1
    /\ message # None
    /\ input # Undefined

\* C22: the prompt sent to the model is the template with the input put
\* in as the request carried it, white space before and after it
\* included; the trimmed text is used for the length alone.
C22_PromptEmbedsInput ==
    calls = 1 =>
        /\ SentInput.t = "str"
        /\ input = SentInput
        /\ prompt = PromptHead \o SentInput.s \o PromptTail
        /\ Len(prompt) = Len(PromptHead) + Len(SentInput.s) + Len(PromptTail)

\* the prompt was sent for an input that begins with a space and ends with
\* a line feed, and holds both
C22_Witness ==
    /\ calls = 1
    /\ pc = "Invoking"
    /\ Head(SentInput.s) = " "
    /\ SentInput.s[Len(SentInput.s)] = "\n"
    /\ Trim(SentInput.s) # SentInput.s
    /\ MatchAt(prompt, Len(PromptHead) + 1, SentInput.s)

\* C23: the credential is checked before the body is read, the type of the
\* input before its length, and all three before the model is called: a
\* request without a credential ends in ConfigurationError whatever its
\* body, an input that is the empty text ends in the wrong-type
\* ValidationError, and no call is made without a credential and an input
\* that passed both tests.
C23_Precedence ==
    /\ (pc = "done" /\ ~KeyPresent) =>
            /\ ret = 28
            /\ Kind(response) = "ConfigurationError"
            /\ input = Undefined
            /\ thrown = None
    /\ (pc = "done" /\ KeyPresent /\ SentInput = Str(<<>>)) =>
            /\ ret = 39
            /\ response = InvalidTypeResponse
    /\ (pc = "done" /\ ret = 46) => (IsString(input) /\ Truthy(input))
    /\ calls = 1 =>
            /\ KeyPresent
            /\ IsString(input)
            /\ Len(Trim(input.s)) >= MinInputLength

\* a request with no credential and an input that is a number ended in
\* ConfigurationError
C23_Witness ==
    /\ pc = "done"
    /\ ~KeyPresent
    /\ SentInput.t = "num"
    /\ ret = 28

\* a request whose input is the empty text ended in the wrong-type error
C23_WitnessEmptyText ==
    /\ pc = "done"
    /\ KeyPresent
    /\ SentInput = Str(<<>>)
    /\ ret = 39

\* C24: every input the page lets the user submit passes the length test
\* of the server: the request under way is never answered with the
\* too-short error.
C24_LengthsAgree ==
    fetching # None => TooShortResponse \notin ServerAnswers(fetching)

\* C25: every result the page holds has a list for keyDifferentiators and
\* a list for recommendations, the two fields the render and the exports
\* call map on.
C25_ListsPresent ==
    result # Null =>
        /\ IsArray(GetProp(result, Chars("keyDifferentiators")))
        /\ IsArray(GetProp(result, Chars("recommendations")))

\* one step of the page keeps result and error apart
ResultOrErrorStep ==
    /\ ~(result' # Null /\ error' # Null)
    /\ loading' => (result' = Null /\ error' = Null)
    /\ (loading /\ ~loading') =>
            /\ (result' # Null) # (error' # Null)
            /\ result' # Null => JsonResponse(result') \in ServerAnswers(fetching)

\* C26: result and error are never both set, both are null while loading
\* is true, and the end of a submission sets exactly one of them: result
\* when the response is a success, error otherwise. (Both are null in the
\* first state of the page.)
C26_ResultOrError == [][ResultOrErrorStep]_vars

\* a submission has ended in an error: error is set and result is not
C26_Witness ==
    /\ ~loading
    /\ fetching = None
    /\ error # Null
    /\ result = Null

\* C27: with a fetch that settles, loading becomes false again after every
\* submission, whether the response is a success, a failure of the server
\* or a rejected fetch; the steps of a submission leave the typed input as
\* it is, so that the button is enabled again for an input of 50
\* characters or more.
C27_LoadingEnds ==
    /\ loading ~> ~loading
    /\ [][(loading' # loading) => pageInput' = pageInput]_vars
    /\ [](~loading /\ Len(pageInput) >= PageMinLength => ~disabled)

\* a submission has ended in an error and the button is enabled again for
\* the same input
C27_Witness ==
    /\ ~loading
    /\ error # Null
    /\ Len(pageInput) >= PageMinLength
    /\ ~disabled

\* one step of the page keeps to one request at a time
SingleRequestStep ==
    /\ inFlight' > inFlight =>
            /\ ~loading
            /\ ~disabled
            /\ inFlight = 0
            /\ loading'
            /\ disabled'
    /\ ((result' # result /\ result' # Null) \/ (error' # error /\ error' # Null)) =>
            /\ inFlight = 1
            /\ inFlight' = 0
            /\ fetching # None
            /\ fetching' = None
            /\ result' # Null => JsonResponse(result') \in ServerAnswers(fetching)

\* C28: the page has at most one request in flight: loading is true
\* exactly while one call of handleSubmit waits for its fetch, the button
\* is disabled all that time, a submission starts only while loading is
\* false and nothing is in flight, and result or error is set only by the
\* end of the one request in flight, which is the latest submission.
C28_OneRequestInFlight ==
    /\ [](/\ inFlight \in {0, 1}
          /\ loading <=> inFlight = 1
          /\ loading <=> fetching # None
          /\ loading => disabled)
    /\ [][SingleRequestStep]_vars

\* a request is in flight for an input long enough to submit, and the
\* button is disabled
C28_Witness ==
    /\ inFlight = 1
    /\ loading
    /\ disabled
    /\ Len(pageInput) >= PageMinLength
    /\ fetching = PageBody(pageInput)

\* the call of the model resolved and the request has ended
Replied == pc = "done" /\ message # None

\* the reply has a first content block and it is not text
NonTextReply == message.content # <<>> /\ message.content[1].type # "text"

\* C29: a reply whose first content block is not text is read as the
\* empty text, which JSON.parse rejects: the request ends at route.ts:91
\* in MalformedResponse, nothing having been thrown to the catch block. A
\* reply with no content block throws where its first block is read and
\* the request ends at route.ts:127 in UpstreamError. Neither is a success.
C29_NonTextReply ==
    Replied =>
        /\ NonTextReply =>
                /\ ResponseText(message) = <<>>
                /\ ret = 91
                /\ response = ParseFailedResponse
                /\ Kind(response) = "MalformedResponse"
                /\ thrown = None
                /\ analysis = Undefined
        /\ message.content = <<>> =>
                /\ ret = 127
                /\ thrown # None
                /\ thrown.at = "extract"
                /\ response = UnexpectedResponse
                /\ Kind(response) = "UpstreamError"
                /\ analysis = Undefined
        /\ (NonTextReply \/ message.content = <<>>) => response.status # 200

\* the reply was a tool_use block and the request ended in
\* MalformedResponse
C29_Witness ==
    /\ Replied
    /\ NonTextReply
    /\ ret = 91
    /\ Kind(response) = "MalformedResponse"

\* the reply had no content block and the request ended in UpstreamError
C29_WitnessNoBlock ==
    /\ Replied
    /\ message.content = <<>>
    /\ ret = 127
    /\ Kind(response) = "UpstreamError"

\* characters with a meaning in a path or not allowed in a file name
SpecialCharacters == {"/", "\\", ":", "*", "?", "\"", "<", ">", "|"}

\* C30: the file name an export gives its download has no white space and
\* no special character, whatever the product name is.
C30_FileNameSanitized ==
    download # None =>
        \A i \in 1..Len(download) : download[i] \notin WhiteSpace \cup SpecialCharacters

\* what the file names do keep to: no white space, and the product name
\* with each run of white space turned into one hyphen
C30_NoWhiteSpace ==
    download # None =>
        /\ \A i \in 1..Len(download) : download[i] \notin WhiteSpace
        /\ \E r \in SuccessValues, ext \in {Chars("json"), Chars("md"), Chars("txt")} :
              /\ IsString(GetProp(r, Chars("productName")))
              /\ download = FileName(GetProp(r, Chars("productName")).s, ext)

====
